---- MODULE Spec2Model ----
(***************************************************************************)
(* A model of webwin.py: the WebWin call bridge (bind_func, bind_object,   *)
(* the handler installed by _bind_func) and its stub buffer webwin_js,     *)
(* which grows by insert_str in front of the marker WEBEIN_JS_EXPOSE_END.  *)
(*                                                                         *)
(* Text.  A Python str is a sequence of tokens.  A token is one character  *)
(* ("/", "_", "W", ...) or a literal run of characters of the source that  *)
(* holds no piece of the marker and whose length str.lower() keeps; runs   *)
(* are written as the source writes them.  I_DOT is the one character of   *)
(* Unicode, U+0130, whose str.lower() is two characters long.              *)
(*                                                                         *)
(* JSON.  A JSON text is a sequence of lexical tokens [k, v]; json.loads   *)
(* and json.dumps are the parser and the printer over those tokens.        *)
(***************************************************************************)
EXTENDS Integers, Sequences, FiniteSets, TLC

\* webwin_js  the stub buffer self.webwin_js
\* handlers   what self._webui_win has bound: name -> callable
\* world      the fields of the exposed World instance
\* emitted    history: the texts handed to _webwin_js_expose, in call order
\* bindlog    history: the (name, callable) pairs handed to _bind_func, in order
\* last       history: the last operation, its inputs and its outcome
\* nbinds     the number of bind_func and bind_object calls made
\* inj        the call of a document function: its arguments and its result
\* argp       the WebWinApp.ArgParser: its pending table and the real parser
\* files      the paths that are files of the file system
VARIABLES webwin_js, handlers, world, emitted, bindlog, last, nbinds, inj, argp, files

vars == <<webwin_js, handlers, world, emitted, bindlog, last, nbinds, inj, argp, files>>

(***************************************************************************)
(* Bounds of the model.                                                    *)
(***************************************************************************)
MaxBinds == 2
MaxDocLen == 3
MaxArgOps == 4

(***************************************************************************)
(* Python str operations.                                                  *)
(***************************************************************************)
Min(S) == CHOOSE i \in S : \A j \in S : i <= j
Max(S) == CHOOSE i \in S : \A j \in S : i >= j

\* s[a:b] with 0-based bounds, clamped as Python clamps a slice
Slice(s, a, b) ==
    LET lo == IF a < 0 THEN 0 ELSE IF a > Len(s) THEN Len(s) ELSE a
        hi == IF b < 0 THEN 0 ELSE IF b > Len(s) THEN Len(s) ELSE b
    IN  IF hi <= lo THEN <<>> ELSE SubSeq(s, lo + 1, hi)

UPPER == <<"A","B","C","D","E","F","G","H","I","J","K","L","M",
           "N","O","P","Q","R","S","T","U","V","W","X","Y","Z">>
LOWER == <<"a","b","c","d","e","f","g","h","i","j","k","l","m",
           "n","o","p","q","r","s","t","u","v","w","x","y","z">>

\* str.lower() of one character: U+0130 lowers to "i" followed by U+0307
LowerChar(c) ==
    IF \E k \in 1..26 : UPPER[k] = c
    THEN <<LOWER[CHOOSE k \in 1..26 : UPPER[k] = c]>>
    ELSE IF c = "I_DOT" THEN <<"i", "COMBINING_DOT">>
    ELSE <<c>>

\* str.lower(): the characters' lowerings, concatenated
RECURSIVE Lower(_)
Lower(s) ==
    IF s = <<>> THEN <<>>
    ELSE IF Len(s) = 1 THEN LowerChar(s[1])
    ELSE Lower(SubSeq(s, 1, Len(s) \div 2)) \o Lower(SubSeq(s, Len(s) \div 2 + 1, Len(s)))

\* the 0-based offsets at which w occurs in s
Occurrences(s, w) ==
    {i \in 0..(Len(s) - Len(w)) : SubSeq(s, i + 1, i + Len(w)) = w}

\* str.find and str.rfind: -1 when w does not occur
Find(s, w) == IF Occurrences(s, w) = {} THEN -1 ELSE Min(Occurrences(s, w))
RFind(s, w) == IF Occurrences(s, w) = {} THEN -1 ELSE Max(Occurrences(s, w))

insert_str(html, insert, where, forward, before) ==
    LET p == IF forward THEN Find(Lower(html), Lower(where))
                        ELSE RFind(Lower(html), Lower(where))
        q == IF before THEN p ELSE p + Len(where)
    IN  IF p >= 0
        THEN Slice(html, 0, q) \o insert \o Slice(html, q, Len(html))
        ELSE html

(***************************************************************************)
(* The stub buffer.                                                        *)
(***************************************************************************)
WEBEIN_JS_EXPOSE_END ==
    <<"/","*","_","W","E","B","W","I","N","_","E","X","P","O","S","E",
      "_","E","N","D","_","*","/">>

TEMPLATE_HEAD ==
    <<"\n/**\n* WebWin js\n*\n*/\nvar webwin = {\nasync _call_(fname, ...args) {\n    try {\n        let ret = JSON.parse(await webui.call(fname, JSON.stringify(args)));\n        if (ret.status == \"succ\") { return ret.retval; }\n        else { throw Error(\"Backend-Error: \" + ret.msg); }\n    } catch (e) {\n        // console.log(e);\n        throw e;\n    }\n},\n/* Back-end exported objects and functions */\n\n">>

TEMPLATE_TAIL == <<"\n};\nconsole.log('webwin.js loaded.');\n">>

WEBWIN_JS_TEMPLATE == TEMPLATE_HEAD \o WEBEIN_JS_EXPOSE_END \o TEMPLATE_TAIL

VERSION_LINE == <<"_version_: \"0.2.1\",">>

NL == <<"\n">>

\* self.webwin_js after _webwin_js_expose(js_str, end), from the buffer js
_webwin_js_expose(js, js_str, end) ==
    insert_str(js, js_str \o end, WEBEIN_JS_EXPOSE_END, FALSE, TRUE)

\* the text _expose_func hands to _webwin_js_expose
StubText(doc, bindname, jsname) ==
    (IF doc # <<>> THEN <<"/*\n">> \o doc \o <<"\n */">> ELSE <<>>)
    \o <<"\nasync ">> \o (IF jsname # <<>> THEN jsname ELSE bindname)
    \o <<"(...args) {\n    return await webwin._call_(\"">> \o bindname
    \o <<"\", ...args);\n},">>

_expose_func(js, doc, bindname, jsname) ==
    _webwin_js_expose(js, StubText(doc, bindname, jsname), NL)

(***************************************************************************)
(* Python values and JSON.                                                 *)
(***************************************************************************)
VStr(s) == [t |-> "str", s |-> s, items |-> <<>>]
VInt(d) == [t |-> "int", s |-> d, items |-> <<>>]
VBool(b) == [t |-> "bool", s |-> b, items |-> <<>>]
VNone == [t |-> "None", s |-> <<>>, items |-> <<>>]
VList(xs) == [t |-> "list", s |-> <<>>, items |-> xs]
VTuple(xs) == [t |-> "tuple", s |-> <<>>, items |-> xs]
VSet(xs) == [t |-> "set", s |-> <<>>, items |-> xs]
\* an attribute that has not been assigned
Unset == [t |-> "unset", s |-> <<>>, items |-> <<>>]

Tok(k, v) == [k |-> k, v |-> v]
P(c) == Tok("punct", <<c>>)
JStr(s) == Tok("str", s)

\* json.dumps of a value: ok = FALSE is TypeError (not JSON serializable)
RECURSIVE DumpsValue(_)
RECURSIVE DumpsItems(_)
DumpsItems(xs) ==
    IF xs = <<>> THEN [ok |-> TRUE, text |-> <<>>]
    ELSE LET h == DumpsValue(Head(xs))
             r == DumpsItems(Tail(xs))
         IN  IF ~h.ok \/ ~r.ok THEN [ok |-> FALSE, text |-> <<>>]
             ELSE [ok |-> TRUE,
                   text |-> h.text \o (IF Tail(xs) = <<>> THEN <<>> ELSE <<P(",")>>)
                            \o r.text]
DumpsValue(v) ==
    CASE v.t = "str" -> [ok |-> TRUE, text |-> <<JStr(v.s)>>]
      [] v.t = "int" -> [ok |-> TRUE, text |-> <<Tok("num", v.s)>>]
      [] v.t = "bool" ->
           [ok |-> TRUE,
            text |-> <<Tok("lit", IF v.s = <<"True">> THEN <<"true">> ELSE <<"false">>)>>]
      [] v.t = "None" -> [ok |-> TRUE, text |-> <<Tok("lit", <<"null">>)>>]
      [] v.t \in {"list", "tuple"} ->
           LET r == DumpsItems(v.items)
           IN  IF r.ok THEN [ok |-> TRUE, text |-> <<P("[")>> \o r.text \o <<P("]")>>]
                       ELSE [ok |-> FALSE, text |-> <<>>]
      [] OTHER -> [ok |-> FALSE, text |-> <<>>]

\* DumpsSucc with the keys "success" and "value" in place of "succ" and "retval"
DumpsSucc_success(retval) ==
    LET r == DumpsValue(retval)
    IN  [ok |-> r.ok,
         text |-> IF r.ok
                  THEN <<P("{"), JStr(<<"status">>), P(":"), JStr(<<"success">>), P(","),
                         JStr(<<"value">>), P(":")>> \o r.text \o <<P("}")>>
                  ELSE <<>>]

\* json.dumps({'status': 'succ', 'retval': retval}, ensure_ascii=False)
DumpsSucc(retval) ==
    LET r == DumpsValue(retval)
    IN  [ok |-> r.ok,
         text |-> IF r.ok
                  THEN <<P("{"), JStr(<<"status">>), P(":"), JStr(<<"succ">>), P(","),
                         JStr(<<"retval">>), P(":")>> \o r.text \o <<P("}")>>
                  ELSE <<>>]

\* json.dumps({'status': 'fail', 'msg': msg}, ensure_ascii=False), msg a str
DumpsFail(msg) ==
    <<P("{"), JStr(<<"status">>), P(":"), JStr(<<"fail">>), P(","),
      JStr(<<"msg">>), P(":"), JStr(msg), P("}")>>

\* json.loads: a recursive-descent parse of the whole text; ok = FALSE is
\* json.JSONDecodeError.  Texts with objects are not among the payloads.
ParseFail == [ok |-> FALSE, val |-> VNone, next |-> 0]
RECURSIVE ParseValue(_, _)
RECURSIVE ParseItems(_, _, _)
ParseItems(s, i, acc) ==
    LET r == ParseValue(s, i)
    IN  IF ~r.ok THEN ParseFail
        ELSE IF r.next <= Len(s) /\ s[r.next] = P(",")
             THEN ParseItems(s, r.next + 1, Append(acc, r.val))
        ELSE IF r.next <= Len(s) /\ s[r.next] = P("]")
             THEN [ok |-> TRUE, val |-> VList(Append(acc, r.val)), next |-> r.next + 1]
        ELSE ParseFail
ParseValue(s, i) ==
    IF i > Len(s) THEN ParseFail
    ELSE CASE s[i].k = "str" -> [ok |-> TRUE, val |-> VStr(s[i].v), next |-> i + 1]
           [] s[i].k = "num" -> [ok |-> TRUE, val |-> VInt(s[i].v), next |-> i + 1]
           [] s[i] = Tok("lit", <<"null">>) -> [ok |-> TRUE, val |-> VNone, next |-> i + 1]
           [] s[i] = Tok("lit", <<"true">>) ->
                [ok |-> TRUE, val |-> VBool(<<"True">>), next |-> i + 1]
           [] s[i] = Tok("lit", <<"false">>) ->
                [ok |-> TRUE, val |-> VBool(<<"False">>), next |-> i + 1]
           [] s[i] = P("[") ->
                IF i + 1 <= Len(s) /\ s[i + 1] = P("]")
                THEN [ok |-> TRUE, val |-> VList(<<>>), next |-> i + 2]
                ELSE ParseItems(s, i + 1, <<>>)
           [] OTHER -> ParseFail

Loads(s) ==
    LET r == ParseValue(s, 1)
    IN  IF r.ok /\ r.next = Len(s) + 1 THEN [ok |-> TRUE, val |-> r.val]
        ELSE [ok |-> FALSE, val |-> VNone]

\* the front end's JSON.stringify(args)
Stringify(args) == DumpsValue(VList(args)).text

(***************************************************************************)
(* The Python objects handed to the bridge.  swap and World are demo.py's; *)
(* the others are inputs: mkset returns a set, tup a tuple, quit calls     *)
(* sys.exit(), stamp is a function whose __doc__ was set to a number, 42   *)
(* is an int; Kit is an instance whose class aliases methods and has a     *)
(* static method, Bare is object().  FileSystem is webwin.py's; the text   *)
(* of a docstring of its methods is one token.                             *)
(***************************************************************************)
Functions == {"swap", "mkset", "tup", "quit", "stamp"}
Methods == {"World.__init__", "World.hello", "World.set_name_1", "World.set_name_2",
            "Kit._impl", "Kit.hello", "Kit.st",
            "FileSystem.cwd", "FileSystem.get_roots", "FileSystem.ls",
            "FileSystem.readfile", "FileSystem.removefile", "FileSystem.writefile"}
NonCallables == {"42"}
Targets == Functions \cup NonCallables
Objects == {"World", "Kit", "Bare", "FileSystem"}

\* callable(func)
Callable(func) == func \in Functions \cup Methods

\* func.__name__
FuncName(func) ==
    CASE func = "swap" -> <<"swap">>
      [] func = "mkset" -> <<"mkset">>
      [] func = "tup" -> <<"tup">>
      [] func = "quit" -> <<"quit">>
      [] func = "stamp" -> <<"stamp">>
      [] func = "World.__init__" -> <<"_", "_", "init", "_", "_">>
      [] func = "World.hello" -> <<"hello">>
      [] func = "World.set_name_1" -> <<"set", "_", "name", "_", "1">>
      [] func = "World.set_name_2" -> <<"set", "_", "name", "_", "2">>
      [] func = "Kit._impl" -> <<"_", "impl">>
      [] func = "Kit.hello" -> <<"hello">>
      [] func = "Kit.st" -> <<"st">>
      [] func = "FileSystem.cwd" -> <<"cwd">>
      [] func = "FileSystem.get_roots" -> <<"get", "_", "roots">>
      [] func = "FileSystem.ls" -> <<"ls">>
      [] func = "FileSystem.readfile" -> <<"readfile">>
      [] func = "FileSystem.removefile" -> <<"removefile">>
      [] func = "FileSystem.writefile" -> <<"writefile">>
      [] OTHER -> <<>>

\* func.__doc__, <<>> when it is None or empty
FuncDoc(func) ==
    CASE func = "mkset" -> <<"set of ", "I_DOT">>
      [] func = "tup" -> Lower(WEBEIN_JS_EXPOSE_END)
      [] func = "quit" -> WEBEIN_JS_EXPOSE_END
      [] func = "Kit.hello" -> <<"I_DOT", "yi g", "u", "nler">>
      [] func = "FileSystem.cwd" -> <<" (docstring of cwd) ">>
      [] func = "FileSystem.get_roots" -> <<" (docstring of get", "_", "roots) ">>
      [] func = "FileSystem.ls" -> <<" (docstring of ls) ">>
      [] func = "FileSystem.readfile" -> <<" (docstring of readfile) ">>
      [] func = "FileSystem.removefile" -> <<" (docstring of removefile) ">>
      [] func = "FileSystem.writefile" -> <<" (docstring of writefile) ">>
      [] OTHER -> <<>>

\* func.__doc__ is a str or None: '/*\n' + f.__doc__ raises TypeError otherwise
DocIsStr(func) == func # "stamp"

\* obj.__class__.__name__
ClassName(obj) ==
    CASE obj = "World" -> <<"W", "orld">>
      [] obj = "Kit" -> <<"K", "it">>
      [] obj = "FileSystem" -> <<"F", "ile", "S", "ystem">>
      [] OTHER -> <<"object">>

Attr(attr, kind, fn) == [attr |-> attr, kind |-> kind, fn |-> fn]

\* the attributes of obj as inspect.getmembers lists them, sorted by name;
\* kind is "method" for a bound method (classmethods included), "function"
\* for a plain function (a static method), "data" for what is not callable
Members(obj) ==
    CASE obj = "World" ->
           << Attr(<<"_", "_", "init", "_", "_">>, "method", "World.__init__"),
              Attr(<<"hello">>, "method", "World.hello"),
              Attr(<<"myname">>, "data", ""),
              Attr(<<"set", "_", "name", "_", "1">>, "method", "World.set_name_1"),
              Attr(<<"set", "_", "name", "_", "2">>, "method", "World.set_name_2") >>
      [] obj = "Kit" ->
           << Attr(<<"_", "impl">>, "method", "Kit._impl"),
              Attr(<<"_", "secret">>, "method", "Kit.hello"),
              Attr(<<"data">>, "data", ""),
              Attr(<<"hello">>, "method", "Kit.hello"),
              Attr(<<"run">>, "method", "Kit._impl"),
              Attr(<<"st">>, "function", "Kit.st") >>
      [] obj = "FileSystem" ->
           << Attr(<<"cwd">>, "method", "FileSystem.cwd"),
              Attr(<<"get", "_", "roots">>, "method", "FileSystem.get_roots"),
              Attr(<<"ls">>, "method", "FileSystem.ls"),
              Attr(<<"readfile">>, "method", "FileSystem.readfile"),
              Attr(<<"removefile">>, "method", "FileSystem.removefile"),
              Attr(<<"writefile">>, "method", "FileSystem.writefile") >>
      [] OTHER -> <<>>

\* str.startswith
StartsWith(s, prefix) == Len(s) >= Len(prefix) /\ SubSeq(s, 1, Len(prefix)) = prefix

(***************************************************************************)
(* Calling a Python callable.                                              *)
(***************************************************************************)
NoExc == [cls |-> "", base |-> "", arg |-> <<>>]
Exc(cls, base, arg) == [cls |-> cls, base |-> base, arg |-> arg]

\* repr(ex)
Repr(ex) ==
    <<ex.cls, "(">> \o (IF ex.arg = <<>> THEN <<>> ELSE <<"'">> \o ex.arg \o <<"'">>)
    \o <<")">>

Return(v, w) == [kind |-> "return", val |-> v, exc |-> NoExc, world |-> w]
Raise(e, w) == [kind |-> "raise", val |-> VNone, exc |-> e, world |-> w]
ArityError == Exc("TypeError", "Exception", <<"positional arguments">>)

\* str(v) of the values a name can hold
Format(v) == IF v.t \in {"str", "int", "bool"} THEN v.s ELSE <<v.t>>

\* the paths that are directories
Dirs == {<<"/d">>}

\* FileNotFoundError(path)
FileNotFound(path) == Exc("FileNotFoundError", "Exception", path)

\* func(*args) in the state w: the fields of the World instance and, for the
\* methods of FileSystem, the files of the file system with their contents
Invoke(func, args, w) ==
    CASE func = "swap" ->
           IF Len(args) = 2 THEN Return(VList(<<args[2], args[1]>>), w)
           ELSE Raise(ArityError, w)
      [] func = "mkset" -> Return(VSet(args), w)
      [] func = "tup" -> Return(VTuple(args), w)
      [] func = "quit" ->
           IF Len(args) = 0 THEN Raise(Exc("SystemExit", "BaseException", <<>>), w)
           ELSE Raise(ArityError, w)
      [] func = "stamp" ->
           IF Len(args) = 0 THEN Return(VInt(<<"1">>), w) ELSE Raise(ArityError, w)
      [] func = "World.set_name_1" ->
           IF Len(args) = 1 THEN Return(VNone, [w EXCEPT !.name_1 = args[1]])
           ELSE Raise(ArityError, w)
      [] func = "World.set_name_2" ->
           IF Len(args) = 1 THEN Return(VNone, [w EXCEPT !.name_2 = args[1]])
           ELSE Raise(ArityError, w)
      [] func = "World.hello" ->
           IF Len(args) # 0 THEN Raise(ArityError, w)
           ELSE IF w.name_1 = Unset \/ w.name_2 = Unset
           THEN Raise(Exc("AttributeError", "Exception",
                          <<"'World' object has no attribute">>), w)
           ELSE Return(VStr(<<"Hello, <name>">> \o Format(w.name_1)
                            \o <<"</name>!<br /> Hello, <name>">> \o Format(w.name_2)
                            \o <<"</name>!<br /> I'm <name>">> \o <<"WebWin">>
                            \o <<"</name>.">>), w)
      [] func = "Kit.hello" ->
           IF Len(args) = 0 THEN Return(VStr(<<"hi">>), w) ELSE Raise(ArityError, w)
      [] func = "Kit._impl" ->
           IF Len(args) = 0 THEN Return(VInt(<<"2">>), w) ELSE Raise(ArityError, w)
      [] func = "Kit.st" ->
           IF Len(args) = 0 THEN Return(VInt(<<"3">>), w) ELSE Raise(ArityError, w)
      [] func = "FileSystem.cwd" ->
           \* the process runs in the directory /d
           IF Len(args) = 0 THEN Return(VStr(<<"/d">>), w) ELSE Raise(ArityError, w)
      [] func = "FileSystem.get_roots" ->
           \* os.name is not 'nt'
           IF Len(args) = 0 THEN Return(VList(<<VStr(<<"/">>)>>), w)
           ELSE Raise(ArityError, w)
      [] func = "FileSystem.readfile" ->
           IF Len(args) \notin {1, 2} THEN Raise(ArityError, w)
           ELSE IF args[1].t # "str"
           THEN Raise(Exc("TypeError", "Exception", <<"expected str">>), w)
           ELSE IF args[1].s \in DOMAIN w.files
           THEN Return(VStr(w.files[args[1].s]), w)
           ELSE Raise(FileNotFound(args[1].s), w)
      [] func = "FileSystem.writefile" ->
           \* open(path, mode) makes or empties the file before f.write(text)
           \* raises on a text that is no str; a mode other than 'w' and 'a'
           \* is taken to be one open() rejects
           LET mode == IF Len(args) > 2 /\ args[3].t = "str" THEN args[3].s ELSE <<"w">>
               old == IF mode = <<"a">> /\ args[1].s \in DOMAIN w.files
                      THEN w.files[args[1].s] ELSE <<>>
           IN  IF Len(args) \notin {2, 3, 4} THEN Raise(ArityError, w)
               ELSE IF args[1].t # "str"
               THEN Raise(Exc("TypeError", "Exception", <<"expected str">>), w)
               ELSE IF mode \notin {<<"w">>, <<"a">>}
               THEN Raise(Exc("ValueError", "Exception", <<"invalid mode">>), w)
               ELSE IF args[1].s \in Dirs
               THEN Raise(Exc("IsADirectoryError", "Exception", args[1].s), w)
               ELSE IF args[2].t # "str"
               THEN Raise(Exc("TypeError", "Exception", <<"write() argument must be str">>),
                          [w EXCEPT !.files = (args[1].s :> old) @@ @])
               ELSE Return(VInt(<<ToString(Len(args[2].s))>>),
                           [w EXCEPT !.files = (args[1].s :> (old \o args[2].s)) @@ @])
      [] func = "FileSystem.removefile" ->
           IF Len(args) # 1 THEN Raise(ArityError, w)
           ELSE IF args[1].t # "str"
           THEN Raise(Exc("TypeError", "Exception", <<"expected str">>), w)
           ELSE IF args[1].s \in DOMAIN w.files
           THEN Raise(FileNotFound(args[1].s),
                      [w EXCEPT !.files = [q \in DOMAIN @ \ {args[1].s} |-> @[q]]])
           ELSE Raise(FileNotFound(args[1].s), w)
      [] OTHER -> Raise(ArityError, w)

\* the positional arguments of f(*args): ok = FALSE is TypeError (args is not
\* iterable); a str unpacks to its characters
StarArgs(v) ==
    CASE v.t \in {"list", "tuple"} -> [ok |-> TRUE, items |-> v.items]
      [] v.t = "str" -> [ok |-> TRUE, items |-> [i \in 1..Len(v.s) |-> VStr(<<v.s[i]>>)]]
      [] OTHER -> [ok |-> FALSE, items |-> <<>>]

(***************************************************************************)
(* The handler _bind_func installs.  kind = "return": the handler returns  *)
(* text to the channel; kind = "raise": exc leaves the handler.  invoked    *)
(* lists the callables the handler called.                                 *)
(***************************************************************************)
Returned(text, w, inv) ==
    [kind |-> "return", text |-> text, exc |-> NoExc, world |-> w, invoked |-> inv]
Raised(e, w, inv) ==
    [kind |-> "raise", text |-> <<>>, exc |-> e, world |-> w, invoked |-> inv]

\* OnRaise without the except clause: the exception leaves the handler
OnRaise_uncaught(ex, w, inv) == Raised(ex, w, inv)

\* except Exception as ex: return json.dumps({'status': 'fail', 'msg': repr(ex)})
\* an exception that is no Exception (SystemExit, KeyboardInterrupt) passes
OnRaise(ex, w, inv) ==
    IF ex.base = "Exception"
    THEN Returned(DumpsFail(Repr(ex)), w, inv)
    ELSE Raised(ex, w, inv)

\* OnReturn with json.dumps after the try block: its TypeError is not caught
OnReturn_outside_try(f, retval, w) ==
    IF DumpsSucc(retval).ok
    THEN Returned(DumpsSucc(retval).text, w, <<f>>)
    ELSE Raised(Exc("TypeError", "Exception",
                    <<"Object of type ", retval.t, " is not JSON serializable">>),
                w, <<f>>)

\* return json.dumps({'status': 'succ', 'retval': retval}), inside the try
OnReturn(f, retval, w) ==
    IF DumpsSucc(retval).ok
    THEN Returned(DumpsSucc(retval).text, w, <<f>>)
    ELSE OnRaise(Exc("TypeError", "Exception",
                     <<"Object of type ", retval.t, " is not JSON serializable">>),
                 w, <<f>>)

\* json.loads(args_j) if args_j else [], before the try
DecodeArgs(args_j) ==
    IF args_j # <<>> THEN Loads(args_j) ELSE [ok |-> TRUE, val |-> VList(<<>>)]

wrapper(f, args_j, w) ==
    LET dec == DecodeArgs(args_j)
        star == StarArgs(dec.val)
        r == Invoke(f, star.items, w)
    IN  IF ~dec.ok
        THEN Raised(Exc("JSONDecodeError", "Exception", <<"Expecting value">>), w, <<>>)
        ELSE IF ~star.ok
        THEN OnRaise(Exc("TypeError", "Exception",
                         <<"argument after * must be an iterable">>), w, <<>>)
        ELSE IF r.kind = "raise"
        THEN OnRaise(r.exc, r.world, <<f>>)
        ELSE OnReturn(f, r.val, r.world)

\* _bind_func on a channel that keeps the first handler bound to a name
_bind_func_keep_first(h, f, bindname) ==
    [n \in DOMAIN h \cup {bindname} |-> IF n \in DOMAIN h THEN h[n] ELSE f]

\* self._webui_win.bind(bindname, wrapper): the channel keeps one handler per name
_bind_func(h, f, bindname) ==
    [n \in DOMAIN h \cup {bindname} |-> IF n = bindname THEN f ELSE h[n]]

(***************************************************************************)
(* bind_func and bind_object as functions of the instance's state (js, h). *)
(* raised names the exception the call ends with, "" when it returns;      *)
(* texts and binds are what the call handed to _webwin_js_expose and to    *)
(* _bind_func, in order.                                                   *)
(***************************************************************************)
Bound(name, fn) == [name |-> name, fn |-> fn]

\* bind_func with the callable() test after the binding
bind_func_late_check(js, h, func, bindname) ==
    LET name == IF bindname = <<>> THEN FuncName(func) ELSE bindname
    IN  IF ~Callable(func)
        THEN [raised |-> "TypeError", js |-> js, h |-> _bind_func(h, func, name),
              texts |-> <<>>, binds |-> <<>>]
        ELSE IF ~DocIsStr(func)
        THEN [raised |-> "TypeError", js |-> js, h |-> _bind_func(h, func, name),
              texts |-> <<>>, binds |-> <<Bound(name, func)>>]
        ELSE [raised |-> "",
              js |-> _expose_func(js, FuncDoc(func), name, <<>>),
              h |-> _bind_func(h, func, name),
              texts |-> <<StubText(FuncDoc(func), name, <<>>) \o NL>>,
              binds |-> <<Bound(name, func)>>]

\* if not callable: raise; self._bind_func(func, bindname); then
\* self._expose_func(func, bindname), which raises before it touches the
\* buffer when func.__doc__ is not a str
bind_func(js, h, func, bindname) ==
    IF ~Callable(func)
    THEN [raised |-> "TypeError", js |-> js, h |-> h, texts |-> <<>>, binds |-> <<>>]
    ELSE LET name == IF bindname = <<>> THEN FuncName(func) ELSE bindname
         IN  IF ~DocIsStr(func)
             THEN [raised |-> "TypeError", js |-> js, h |-> _bind_func(h, func, name),
                   texts |-> <<>>, binds |-> <<Bound(name, func)>>]
             ELSE [raised |-> "",
                   js |-> _expose_func(js, FuncDoc(func), name, <<>>),
                   h |-> _bind_func(h, func, name),
                   texts |-> <<StubText(FuncDoc(func), name, <<>>) \o NL>>,
                   binds |-> <<Bound(name, func)>>]

\* the members bind_object's predicate keeps
PublicMethods(obj) ==
    SelectSeq(Members(obj),
              LAMBDA m : m.kind = "method" /\ ~StartsWith(FuncName(m.fn), <<"_">>))

\* the loop of bind_object over the members ms, from member i on
RECURSIVE bind_members(_, _, _, _)
bind_members(ms, i, bindname, st) ==
    IF i > Len(ms) THEN st
    ELSE LET funcbindname == bindname \o <<".">> \o ms[i].attr
             funcjsname == ms[i].attr
         IN  bind_members(ms, i + 1, bindname,
                 [raised |-> "",
                  js |-> _expose_func(st.js, FuncDoc(ms[i].fn), funcbindname, funcjsname),
                  h |-> _bind_func(st.h, ms[i].fn, funcbindname),
                  texts |-> Append(st.texts,
                                   StubText(FuncDoc(ms[i].fn), funcbindname, funcjsname)
                                   \o NL),
                  binds |-> Append(st.binds, Bound(funcbindname, ms[i].fn))])

bind_object(js, h, obj, bindname) ==
    LET name == IF bindname = <<>> THEN Lower(ClassName(obj)) ELSE bindname
        open == [raised |-> "",
                 js |-> _webwin_js_expose(js, name \o <<": {">>, NL),
                 h |-> h,
                 texts |-> <<name \o <<": {">> \o NL>>,
                 binds |-> <<>>]
        body == bind_members(PublicMethods(obj), 1, name, open)
    IN  [body EXCEPT !.js = _webwin_js_expose(body.js, <<"},">>, NL),
                     !.texts = Append(body.texts, <<"},">> \o NL)]

(***************************************************************************)
(* The state machine.                                                      *)
(***************************************************************************)
NoResult == [kind |-> "none", text |-> <<>>, exc |-> NoExc]

Op(op, target, bindname, raised, texts, binds, name, payload, result, invoked, pre) ==
    [op |-> op, target |-> target, bindname |-> bindname, raised |-> raised,
     texts |-> texts, binds |-> binds, name |-> name, payload |-> payload,
     result |-> result, invoked |-> invoked, pre |-> pre]

NewWorld == [name_1 |-> Unset, name_2 |-> Unset]

\* no document function has been called, no ArgParser has been made, the
\* file system holds no file
NoFiles == [q \in {} |-> <<>>]
NoDoc == [fn |-> "none"]
NoArgParser ==
    [built |-> FALSE, table |-> <<>>, registered |-> <<>>, raised |-> "",
     op |-> [kind |-> "none"], nops |-> 0, nbuilds |-> 0]

\* the bind_func(func, bindname) and bind_object(obj, bindname) calls tried;
\* <<>> is the default bindname ''
FuncCalls ==
    {<<"swap", <<>>>>, <<"tup", <<"f">>>>, <<"mkset", <<"f">>>>, <<"quit", <<>>>>,
     <<"stamp", <<"f">>>>, <<"42", <<"f">>>>}
ObjectCalls ==
    {<<"World", <<>>>>, <<"Kit", <<"w", "orld">>>>, <<"Bare", <<>>>>}

\* the payloads the channel delivers
X == VStr(<<"x">>)
Y == VStr(<<"y">>)
ArgLists == {<<>>, <<X>>, <<X, Y>>}
Malformed == {<<P("["), JStr(<<"x">>), P(",")>>}
Payloads ==
    {<<>>} \cup {Stringify(a) : a \in ArgLists \ {<<>>}} \cup Malformed
    \cup {<<Tok("num", <<"5">>)>>}

\* WebWin.__init__
NewWebWin ==
    /\ webwin_js = _webwin_js_expose(WEBWIN_JS_TEMPLATE, VERSION_LINE, NL)
    /\ handlers = [n \in {} |-> ""]
    /\ world = NewWorld
    /\ emitted = <<VERSION_LINE \o NL>>
    /\ bindlog = <<>>
    /\ last = Op("init", "", <<>>, "", <<>>, <<>>, <<>>, <<>>, NoResult, <<>>, NewWorld)
    /\ nbinds = 0

Init ==
    /\ NewWebWin
    /\ inj = NoDoc
    /\ argp = NoArgParser
    /\ files = NoFiles

BindFunc(func, bindname) ==
    /\ nbinds < MaxBinds
    /\ LET r == bind_func(webwin_js, handlers, func, bindname)
       IN  /\ webwin_js' = r.js
           /\ handlers' = r.h
           /\ emitted' = emitted \o r.texts
           /\ bindlog' = bindlog \o r.binds
           /\ last' = Op("bind_func", func, bindname, r.raised, r.texts, r.binds,
                         <<>>, <<>>, NoResult, <<>>, world)
    /\ nbinds' = nbinds + 1
    /\ UNCHANGED <<world, inj, argp, files>>

BindObject(obj, bindname) ==
    /\ nbinds < MaxBinds
    /\ LET r == bind_object(webwin_js, handlers, obj, bindname)
       IN  /\ webwin_js' = r.js
           /\ handlers' = r.h
           /\ emitted' = emitted \o r.texts
           /\ bindlog' = bindlog \o r.binds
           /\ last' = Op("bind_object", obj, bindname, r.raised, r.texts, r.binds,
                         <<>>, <<>>, NoResult, <<>>, world)
    /\ nbinds' = nbinds + 1
    /\ UNCHANGED <<world, inj, argp, files>>

\* the channel calls the handler bound to name with payload
Call(name, payload) ==
    /\ name \in DOMAIN handlers
    /\ LET r == wrapper(handlers[name], payload, world)
       IN  /\ world' = r.world
           /\ last' = Op("call", handlers[name], <<>>, "", <<>>, <<>>, name, payload,
                         [kind |-> r.kind, text |-> r.text, exc |-> r.exc],
                         r.invoked, world)
    /\ UNCHANGED <<webwin_js, handlers, emitted, bindlog, nbinds, inj, argp, files>>

Next ==
    \/ \E c \in FuncCalls : BindFunc(c[1], c[2])
    \/ \E c \in ObjectCalls : BindObject(c[1], c[2])
    \/ \E name \in DOMAIN handlers, payload \in Payloads : Call(name, payload)

Spec == Init /\ [][Next]_vars

bridge == <<webwin_js, handlers, world, emitted, bindlog, last, nbinds>>

(***************************************************************************)
(* insert_str on its own: the arguments are drawn at the start, the call   *)
(* computes the result.                                                    *)
(***************************************************************************)
Chars == {"a", "A", "b", "I_DOT"}
Docs == UNION {[1..k -> Chars] : k \in 0..MaxDocLen}
Markers == {<<>>, <<"a">>, <<"A", "b">>, <<"I_DOT">>, <<"b", "I_DOT">>}
Inserts == {<<"X">>}

InsertInit ==
    /\ NewWebWin
    /\ argp = NoArgParser
    /\ files = NoFiles
    /\ \E html \in Docs, insert \in Inserts, where \in Markers, forward, before \in BOOLEAN :
         inj = [fn |-> "insert_str", html |-> html, insert |-> insert, where |-> where,
                forward |-> forward, before |-> before, out |-> <<>>, done |-> FALSE]

InsertStr ==
    /\ inj.fn = "insert_str"
    /\ ~inj.done
    /\ inj' = [inj EXCEPT !.out = insert_str(inj.html, inj.insert, inj.where,
                                             inj.forward, inj.before),
                          !.done = TRUE]
    /\ UNCHANGED <<bridge, argp, files>>

SpecInsert == InsertInit /\ [][InsertStr]_vars

(***************************************************************************)
(* comment_html and comment_js_file.  Here a text is a sequence of single  *)
(* characters: the offsets of re.finditer count characters.                *)
(***************************************************************************)
MaxSegs == 2

SCRIPT_OPEN ==
    <<"<","s","c","r","i","p","t">>
SCRIPT_CLOSE ==
    <<"<","/","s","c","r","i","p","t",">">>
COMMENT_OPEN ==
    <<"<","!","-","-"," ">>
COMMENT_CLOSE ==
    <<" ","-","-",">">>

\* \s of re
IsSpace(c) == c \in {" ", "\n", "\t"}

\* two characters are equal under re.IGNORECASE
EqI(c, d) == LowerChar(c) = LowerChar(d)

\* the literal lit matches s at offset i, case ignored
MatchLit(s, i, lit) ==
    /\ i + Len(lit) <= Len(s)
    /\ \A k \in 1..Len(lit) : EqI(s[i + k], lit[k])

\* js_file.replace('.', '\\.') as the pattern it is: one atom per character,
\* the escaped dot a literal dot
safe_str(js_file) == [k \in 1..Len(js_file) |-> [lit |-> js_file[k]]]

\* the atoms match s at offset i
MatchAtoms(s, i, atoms) ==
    /\ i + Len(atoms) <= Len(s)
    /\ \A k \in 1..Len(atoms) : EqI(s[i + k], atoms[k].lit)

\* the offset after the longest run of \s at offset i
RECURSIVE SkipSpace(_, _)
SkipSpace(s, i) == IF i < Len(s) /\ IsSpace(s[i + 1]) THEN SkipSpace(s, i + 1) ELSE i

\* the end of  {safe_str}["']>\s*</script>  matched at offset b, -1 if none
TailEnd(s, b, js_file) ==
    LET q == b + Len(js_file)
        c == SkipSpace(s, q + 2)
    IN  IF /\ MatchAtoms(s, b, safe_str(js_file))
           /\ q + 2 <= Len(s)
           /\ s[q + 1] \in {"\"", "'"}
           /\ s[q + 2] = ">"
           /\ MatchLit(s, c, SCRIPT_CLOSE)
        THEN c + Len(SCRIPT_CLOSE)
        ELSE -1

\* the end of the match of  <script\s+.+{safe_str}["']>\s*</script>  that
\* starts at offset i, -1 if none: \s+ ends at a, .+ at b, and the matcher
\* tries the longer \s+ first and, for each, the longer .+ first
MatchEnd(s, i, js_file) ==
    LET j == i + Len(SCRIPT_OPEN)
        ok(a, b) == /\ \A k \in (j + 1)..a : IsSpace(s[k])
                    /\ \A k \in (a + 1)..b : s[k] # "\n"
                    /\ TailEnd(s, b, js_file) >= 0
        as == {a \in (j + 1)..Len(s) : \E b \in (a + 1)..Len(s) : ok(a, b)}
        a1 == Max(as)
        b1 == Max({b \in (a1 + 1)..Len(s) : ok(a1, b)})
    IN  IF MatchLit(s, i, SCRIPT_OPEN) /\ as # {} THEN TailEnd(s, b1, js_file) ELSE -1

\* re.finditer from offset pos on: the matches [start, end], left to right,
\* none overlapping another
RECURSIVE finditer(_, _, _)
finditer(s, js_file, pos) ==
    LET starts == {i \in pos..Len(s) : MatchEnd(s, i, js_file) >= 0}
        i1 == Min(starts)
    IN  IF starts = {} THEN <<>>
        ELSE <<[start |-> i1, end |-> MatchEnd(s, i1, js_file)]>>
             \o finditer(s, js_file, MatchEnd(s, i1, js_file))

\* the loop of comment_html over the matches ms, from match k on: the matches
\* are those of the text the function was called with, html is rebound
RECURSIVE comment_loop(_, _, _)
comment_loop(html, ms, k) ==
    IF k > Len(ms) THEN html
    ELSE comment_loop(Slice(html, 0, ms[k].start) \o COMMENT_OPEN
                      \o Slice(html, ms[k].start, ms[k].end) \o COMMENT_CLOSE
                      \o Slice(html, ms[k].end, Len(html)),
                      ms, k + 1)

comment_html(html, js_file) == comment_loop(html, finditer(html, js_file, 0), 1)

comment_js_file(html, js_file) == comment_html(html, js_file)

\* the documents: up to MaxSegs pieces, each a script tag or a line of text
SegKinds == {"U", "Q", "V", "T"}
SegSrc(kind) ==
    CASE kind = "U" -> <<"u",".","j","s">>
      [] kind = "Q" -> <<"x","/","u",".","j","s">>
      [] kind = "V" -> <<"v",".","j","s">>
      [] OTHER -> <<>>
SegText(kind) ==
    CASE kind = "U" ->
           <<"<","s","c","r","i","p","t"," ","s","r","c","=","\"","u",".",
             "j","s","\"",">","<","/","s","c","r","i","p","t",">","\n">>
      [] kind = "Q" ->
           <<"<","S","C","R","I","P","T"," ","s","r","c","=","'","x","/",
             "u",".","j","s","'",">"," ","<","/","S","C","R","I","P","T",">">>
      [] kind = "V" ->
           <<"<","s","c","r","i","p","t"," ","s","r","c","=","\"","v",".",
             "j","s","\"",">","<","/","s","c","r","i","p","t",">">>
      [] OTHER -> <<"p", "\n">>
SegDocs == UNION {[1..k -> SegKinds] : k \in 0..MaxSegs}
JsFiles ==
    {<<"u",".","j","s">>, <<".","j","s">>, <<"w",".","j","s">>}

\* ''.join of the texts
RECURSIVE Concat(_)
Concat(texts) == IF texts = <<>> THEN <<>> ELSE Head(texts) \o Concat(Tail(texts))

CommentInit ==
    /\ NewWebWin
    /\ argp = NoArgParser
    /\ files = NoFiles
    /\ \E segs \in SegDocs, js_file \in JsFiles :
         inj = [fn |-> "comment_js_file", segs |-> segs, js_file |-> js_file,
                html |-> Concat([k \in 1..Len(segs) |-> SegText(segs[k])]),
                out |-> Concat([k \in 1..Len(segs) |-> SegText(segs[k])]),
                runs |-> 0]

\* html = comment_js_file(html, js_file), on the result of the run before
CommentJsFile ==
    /\ inj.fn = "comment_js_file"
    /\ inj.runs < 2
    /\ inj' = [inj EXCEPT !.html = inj.out,
                          !.out = comment_js_file(inj.out, inj.js_file),
                          !.runs = inj.runs + 1]
    /\ UNCHANGED <<bridge, argp, files>>

SpecComment == CommentInit /\ [][CommentJsFile]_vars

(***************************************************************************)
(* show_html: the document is prepared by insert_str and append_js and     *)
(* handed to the window's show.                                            *)
(***************************************************************************)
HTML_END == <<"<","/","h","t","m","l",">">>
HEAD == <<"<","h","e","a","d",">">>
CHARSET_META ==
    <<"<meta http-equiv=\"Content-Type\" content=\"text/html; charset=utf-8\" />">>
WEBUI_JS == <<"/webui.js">>

\* the texts append_js inserts for js_file and for js_str
ScriptFile(js_file) == <<"<script src=\"">> \o js_file \o <<"\"></script>\n">>
ScriptBlock(js_str) == <<"<script>\n">> \o js_str \o <<"\n</script>\n">>

append_js(html, js_file, js_str) ==
    LET h1 == IF js_file # <<>>
              THEN insert_str(html, ScriptFile(js_file), HTML_END, FALSE, TRUE)
              ELSE html
    IN  IF js_str # <<>>
        THEN insert_str(h1, ScriptBlock(js_str), HTML_END, FALSE, TRUE)
        ELSE h1

inject_webui_js(html) == append_js(html, WEBUI_JS, <<>>)

inject_webwin_js(js, html) == append_js(html, <<>>, js)

\* the document show_html hands to self._webui_win.show
show_html(js, html, append_webui_js, append_webwin_js) ==
    LET h1 == insert_str(html, CHARSET_META, HEAD, TRUE, FALSE)
        h2 == IF append_webui_js THEN inject_webui_js(h1) ELSE h1
    IN  IF append_webwin_js THEN inject_webwin_js(js, h2) ELSE h2

\* the documents shown: with or without '<head>' and '</html>', in either
\* case, with or without U+0130 in the text
Heads == {<<>>, HEAD, <<"<","H","E","A","D",">">>}
Ends == {<<>>, HTML_END, <<"<","/","H","T","M","L",">">>}
Bodies == {<<"</head><body>hi</body>">>, <<"</head><body>", "I_DOT", "</body>">>}
Pages == {<<"<html>">> \o h \o b \o e : h \in Heads, b \in Bodies, e \in Ends}

ShowInit ==
    /\ NewWebWin
    /\ argp = NoArgParser
    /\ files = NoFiles
    /\ \E html \in Pages, append_webui_js, append_webwin_js \in BOOLEAN :
         inj = [fn |-> "show_html", html |-> html, append_webui_js |-> append_webui_js,
                append_webwin_js |-> append_webwin_js, shown |-> <<>>, done |-> FALSE]

ShowHtml ==
    /\ inj.fn = "show_html"
    /\ ~inj.done
    /\ inj' = [inj EXCEPT !.shown = show_html(webwin_js, inj.html, inj.append_webui_js,
                                               inj.append_webwin_js),
                          !.done = TRUE]
    /\ UNCHANGED <<bridge, argp, files>>

SpecShow == ShowInit /\ [][ShowHtml]_vars

(***************************************************************************)
(* WebWinApp.ArgParser: add_argument, mod_argument and del_argument work   *)
(* on the pending table _wwa_args, a dict in insertion order; build_parser *)
(* hands its entries to argparse.ArgumentParser.add_argument.  An argument *)
(* name is a text, '--port' being <<"-", "-", "port">>; keyword arguments  *)
(* are a function from keyword to value.                                   *)
(***************************************************************************)
Entry(name, args, kwargs) == [name |-> name, args |-> args, kwargs |-> kwargs]
NoKw == [k \in {} |-> ""]

\* dict.update
DictUpdate(d, kwargs) == kwargs @@ d

\* the positions of the key name in the table
Slots(table, name) == {i \in 1..Len(table) : table[i].name = name}

\* ArgumentParser.__init__ with add_help: self.add_argument('-h', '--help',
\* action='help', ...) is the overridden add_argument
HELP_ENTRY ==
    Entry(<<"-", "h">>, << <<"-", "h">>, <<"-", "-", "help">> >>,
          ("action" :> "help") @@ ("default" :> "==SUPPRESS==")
          @@ ("help" :> "show this help message and exit"))

\* the parser after a call ended: raised names its exception, "" for none;
\* op, nops and nbuilds record the call
Ended(ap, kind, name, args, kwargs, raised) ==
    [ap EXCEPT !.raised = raised,
               !.op = [kind |-> kind, name |-> name, args |-> args, kwargs |-> kwargs],
               !.nops = ap.nops + 1,
               !.nbuilds = IF kind = "build" THEN ap.nbuilds + 1 ELSE ap.nbuilds]

\* the name is positional: no name, or one name that does not start with '-'
IsPositional(args) == args = <<>> \/ (Len(args) = 1 /\ args[1][1] # "-")

\* self._wwa_args[name] = (args, kwargs): a new key goes last, an old key
\* keeps its place
SetItem(table, e) ==
    IF Slots(table, e.name) = {} THEN Append(table, e)
    ELSE [i \in 1..Len(table) |-> IF table[i].name = e.name THEN e ELSE table[i]]

\* add_argument that appends in every case
add_argument_append(ap, args, kwargs) ==
    IF IsPositional(args)
    THEN IF args # <<>> /\ "dest" \in DOMAIN kwargs
         THEN Ended(ap, "add", <<>>, args, kwargs, "ValueError")
         ELSE IF "required" \in DOMAIN kwargs \/ (args = <<>> /\ "dest" \notin DOMAIN kwargs)
         THEN Ended(ap, "add", <<>>, args, kwargs, "TypeError")
         ELSE LET name == IF args # <<>> THEN args[1] ELSE kwargs["dest"]
              IN  Ended([ap EXCEPT !.table = Append(ap.table, Entry(name, args, kwargs))],
                        "add", name, args, kwargs, "")
    ELSE IF \E i \in 1..Len(args) : args[i][1] # "-"
         THEN Ended(ap, "add", <<>>, args, kwargs, "ValueError")
         ELSE Ended([ap EXCEPT !.table = Append(ap.table, Entry(args[1], args, kwargs))],
                    "add", args[1], args, kwargs, "")

add_argument(ap, args, kwargs) ==
    IF IsPositional(args)
    THEN IF args # <<>> /\ "dest" \in DOMAIN kwargs
         THEN Ended(ap, "add", <<>>, args, kwargs, "ValueError")
         ELSE IF "required" \in DOMAIN kwargs \/ (args = <<>> /\ "dest" \notin DOMAIN kwargs)
         THEN Ended(ap, "add", <<>>, args, kwargs, "TypeError")
         ELSE LET name == IF args # <<>> THEN args[1] ELSE kwargs["dest"]
              IN  Ended([ap EXCEPT !.table = SetItem(ap.table, Entry(name, args, kwargs))],
                        "add", name, args, kwargs, "")
    ELSE IF \E i \in 1..Len(args) : args[i][1] # "-"
         THEN Ended(ap, "add", <<>>, args, kwargs, "ValueError")
         ELSE Ended([ap EXCEPT !.table = SetItem(ap.table, Entry(args[1], args, kwargs))],
                    "add", args[1], args, kwargs, "")

mod_argument(ap, first_arg_name, kwargs) ==
    Ended([ap EXCEPT !.table =
             [i \in 1..Len(ap.table) |->
                IF ap.table[i].name = first_arg_name
                THEN [ap.table[i] EXCEPT !.kwargs = DictUpdate(@, kwargs)]
                ELSE ap.table[i]]],
          "mod", first_arg_name, <<>>, kwargs, "")

del_argument(ap, first_arg_name) ==
    Ended([ap EXCEPT !.table = SelectSeq(ap.table, LAMBDA e : e.name # first_arg_name)],
          "del", first_arg_name, <<>>, NoKw, "")

\* argparse's add_argument rejects an option string that is registered
Conflicts(registered, e) ==
    /\ ~IsPositional(e.args)
    /\ \E r \in 1..Len(registered) :
         /\ ~IsPositional(registered[r].args)
         /\ \E i \in 1..Len(e.args), j \in 1..Len(registered[r].args) :
              e.args[i] = registered[r].args[j]

\* the loop of build_parser over the table, from entry i on
RECURSIVE build_loop(_, _)
build_loop(ap, i) ==
    IF i > Len(ap.table) THEN [ap EXCEPT !.built = TRUE]
    ELSE IF Conflicts(ap.registered, ap.table[i])
    THEN [ap EXCEPT !.raised = "ArgumentError"]
    ELSE build_loop([ap EXCEPT !.registered =
                       Append(@, [args |-> ap.table[i].args,
                                  kwargs |-> ap.table[i].kwargs])],
                    i + 1)

build_parser(ap) ==
    IF ~ap.built
    THEN build_loop(Ended(ap, "build", <<>>, <<>>, NoKw, ""), 1)
    ELSE Ended(ap, "build", <<>>, <<>>, NoKw, "")

\* the calls tried
PORT == <<"-", "-", "port">>
OPT_A == <<"-", "a">>
OPT_B == <<"-", "b">>
OPT_X == <<"-", "-", "x">>
OPT_Y == <<"-", "-", "y">>
AddCalls ==
    { << <<PORT>>, ("type" :> "int") @@ ("default" :> "0") >>,
      << <<OPT_A, OPT_X>>, NoKw >>,
      << <<OPT_A, OPT_Y>>, ("help" :> "y") >>,
      << <<OPT_B, OPT_X>>, NoKw >>,
      << << <<"file">> >>, NoKw >>,
      << <<OPT_A, <<"x">> >>, NoKw >> }
ModCalls ==
    { << PORT, ("required" :> "True") @@ ("help" :> "port") >>,
      << OPT_B, ("help" :> "b") >> }
DelCalls == {PORT, OPT_B, <<"-", "h">>}

\* WebWinApp.ArgParser(allow_abbrev=False)
ArgsInit ==
    /\ NewWebWin
    /\ inj = NoDoc
    /\ files = NoFiles
    /\ argp = [NoArgParser EXCEPT !.table = <<HELP_ENTRY>>]

AddArgument(args, kwargs) ==
    /\ argp.nops < MaxArgOps
    /\ argp' = add_argument(argp, args, kwargs)
    /\ UNCHANGED <<bridge, inj, files>>

ModArgument(first_arg_name, kwargs) ==
    /\ argp.nops < MaxArgOps
    /\ argp' = mod_argument(argp, first_arg_name, kwargs)
    /\ UNCHANGED <<bridge, inj, files>>

DelArgument(first_arg_name) ==
    /\ argp.nops < MaxArgOps
    /\ argp' = del_argument(argp, first_arg_name)
    /\ UNCHANGED <<bridge, inj, files>>

BuildParser ==
    /\ argp.nops < MaxArgOps
    /\ argp' = build_parser(argp)
    /\ UNCHANGED <<bridge, inj, files>>

ArgsNext ==
    \/ \E c \in AddCalls : AddArgument(c[1], c[2])
    \/ \E c \in ModCalls : ModArgument(c[1], c[2])
    \/ \E name \in DelCalls : DelArgument(name)
    \/ BuildParser

SpecArgs == ArgsInit /\ [][ArgsNext]_vars

(***************************************************************************)
(* WebWinApp.bind_all exposes a FileSystem as 'fs'; the front end calls    *)
(* its methods.  ls, whose result lists directory entries, is bound and    *)
(* not called.                                                             *)
(***************************************************************************)
\* the state the callables act on
Env(w, fs) == [name_1 |-> w.name_1, name_2 |-> w.name_2, files |-> fs]

FilePaths == {<<"/a">>, <<"/b">>}
FsNames ==
    {<<"fs", ".", "cwd">>, <<"fs", ".", "get", "_", "roots">>, <<"fs", ".", "readfile">>,
     <<"fs", ".", "removefile">>, <<"fs", ".", "writefile">>}
FsPayloads ==
    {<<>>}
    \cup {Stringify(<<VStr(q)>>) : q \in FilePaths \cup Dirs}
    \cup {Stringify(<<VStr(q), X>>) : q \in FilePaths \cup Dirs}

\* WebWin.__init__, then bind_all: self.mainwin.bind_object(FileSystem(), 'fs')
FsInit ==
    /\ LET js == _webwin_js_expose(WEBWIN_JS_TEMPLATE, VERSION_LINE, NL)
           r == bind_object(js, [n \in {} |-> ""], "FileSystem", <<"fs">>)
       IN  /\ webwin_js = r.js
           /\ handlers = r.h
           /\ emitted = <<VERSION_LINE \o NL>> \o r.texts
           /\ bindlog = r.binds
           /\ last = Op("bind_object", "FileSystem", <<"fs">>, r.raised, r.texts, r.binds,
                        <<>>, <<>>, NoResult, <<>>, Env(NewWorld, NoFiles))
    /\ world = NewWorld
    /\ nbinds = 1
    /\ inj = NoDoc
    /\ argp = NoArgParser
    /\ files = NoFiles

\* the channel calls the handler bound to a name of 'fs' with payload
FsCall(name, payload) ==
    /\ name \in DOMAIN handlers
    /\ LET r == wrapper(handlers[name], payload, Env(world, files))
       IN  /\ files' = r.world.files
           /\ last' = Op("call", handlers[name], <<>>, "", <<>>, <<>>, name, payload,
                         [kind |-> r.kind, text |-> r.text, exc |-> r.exc],
                         r.invoked, Env(world, files))
    /\ UNCHANGED <<webwin_js, handlers, world, emitted, bindlog, nbinds, inj, argp>>

FsNext == \E name \in FsNames, payload \in FsPayloads : FsCall(name, payload)

SpecFs == FsInit /\ [][FsNext]_vars

(***************************************************************************)
(* What the claims speak of.                                               *)
(***************************************************************************)
\* the payload of an argument list: its JSON array, or '' when it is empty
Encode(a) == IF a = <<>> THEN <<>> ELSE Stringify(a)

\* a pure function: its result depends on its arguments alone
Pure(func) == func \in {"swap", "mkset", "tup"}

\* a value JSON can represent
RECURSIVE Representable(_)
Representable(v) ==
    \/ v.t \in {"str", "int", "bool", "None"}
    \/ /\ v.t \in {"list", "tuple"}
       /\ \A i \in 1..Len(v.items) : Representable(v.items[i])

\* the JSON text of a representable value, arrays of strings and scalars
JsonOfScalar(v) ==
    CASE v.t = "str" -> JStr(v.s)
      [] v.t = "int" -> Tok("num", v.s)
      [] v.t = "None" -> Tok("lit", <<"null">>)
      [] OTHER -> Tok("lit", IF v.s = <<"True">> THEN <<"true">> ELSE <<"false">>)
JsonOfFlat(v) ==
    IF v.t \in {"list", "tuple"}
    THEN <<P("[")>>
         \o [k \in 1..(IF Len(v.items) = 0 THEN 0 ELSE 2 * Len(v.items) - 1) |->
               IF k % 2 = 1 THEN JsonOfScalar(v.items[(k + 1) \div 2]) ELSE P(",")]
         \o <<P("]")>>
    ELSE <<JsonOfScalar(v)>>

\* the envelope {"status":"succ","retval": v}
SuccEnvelope(v) ==
    <<P("{"), JStr(<<"status">>), P(":"), JStr(<<"succ">>), P(","), JStr(<<"retval">>),
      P(":")>> \o JsonOfFlat(v) \o <<P("}")>>

\* text is an envelope {"status":"fail","msg": m} with m not empty
IsFailEnvelope(text) ==
    /\ Len(text) = 9
    /\ SubSeq(text, 1, 7) = <<P("{"), JStr(<<"status">>), P(":"), JStr(<<"fail">>), P(","),
                              JStr(<<"msg">>), P(":")>>
    /\ text[8].k = "str"
    /\ Len(text[8].v) > 0
    /\ text[9] = P("}")

\* the last operation was a call of a handler whose payload decoded to the
\* positional arguments args
CalledWith(args) ==
    /\ last.op = "call"
    /\ DecodeArgs(last.payload).ok
    /\ StarArgs(DecodeArgs(last.payload).val).ok
    /\ StarArgs(DecodeArgs(last.payload).val).items = args

\* the arguments of the last call, when it has any
LastArgs == StarArgs(DecodeArgs(last.payload).val).items

\* what the bound callable of the last call does with those arguments
LastOutcome == Invoke(last.target, LastArgs, last.pre)

\* C1, as claimed: for every pure callable f bound to a name and every argument
\* list a on which f does not raise, the handler called with encode(a) returns
\* the envelope {"status":"succ","retval": f(*a)}.
C1_SuccForEveryPureCallable ==
    \A a \in ArgLists :
        (/\ last.op = "call"
         /\ Pure(last.target)
         /\ last.payload = Encode(a)
         /\ Invoke(last.target, a, last.pre).kind = "return")
        => /\ last.result.kind = "return"
           /\ last.result.text = SuccEnvelope(Invoke(last.target, a, last.pre).val)

\* C1, amended: the same for every pure callable whose result f(*a) is
\* JSON-representable; retval is the JSON text of f(*a), a tuple as an array.
\* swap called with ["x","y"] returns {"status":"succ","retval":["y","x"]}.
C1_SuccForRepresentableResult ==
    /\ \A a \in ArgLists :
        (/\ last.op = "call"
         /\ Pure(last.target)
         /\ last.payload = Encode(a)
         /\ Invoke(last.target, a, last.pre).kind = "return"
         /\ Representable(Invoke(last.target, a, last.pre).val))
        => /\ last.result.kind = "return"
           /\ last.result.text = SuccEnvelope(Invoke(last.target, a, last.pre).val)
    /\ (/\ last.op = "call"
        /\ last.target = "swap"
        /\ last.payload = <<P("["), JStr(<<"x">>), P(","), JStr(<<"y">>), P("]")>>)
       => last.result =
            [kind |-> "return",
             text |-> <<P("{"), JStr(<<"status">>), P(":"), JStr(<<"succ">>), P(","),
                        JStr(<<"retval">>), P(":"), P("["), JStr(<<"y">>), P(","),
                        JStr(<<"x">>), P("]"), P("}")>>,
             exc |-> NoExc]

\* C1 witness: swap, bound, was called with ["x","y"] and the handler returned
C1_Witness ==
    /\ last.op = "call"
    /\ last.target = "swap"
    /\ last.payload = Encode(<<X, Y>>)
    /\ last.result.kind = "return"
    /\ last.invoked = <<"swap">>

\* C2, as claimed: for every bound callable that raises, whatever the
\* exception, the handler returns a "fail" envelope with a non-empty msg and
\* the exception does not leave the handler.
C2_FailForEveryException ==
    (/\ last.op = "call"
     /\ DecodeArgs(last.payload).ok
     /\ StarArgs(DecodeArgs(last.payload).val).ok
     /\ LastOutcome.kind = "raise")
    => /\ last.result.kind = "return"
       /\ IsFailEnvelope(last.result.text)

\* C2, amended: for every bound callable that raises an exception derived
\* from Exception, the handler returns a "fail" envelope with a non-empty msg
\* and the exception does not leave the handler.
C2_FailForEveryExceptionSubclass ==
    (/\ last.op = "call"
     /\ DecodeArgs(last.payload).ok
     /\ StarArgs(DecodeArgs(last.payload).val).ok
     /\ LastOutcome.kind = "raise"
     /\ LastOutcome.exc.base = "Exception")
    => /\ last.result.kind = "return"
       /\ IsFailEnvelope(last.result.text)

\* C2 witness: World.hello, called before the names are set, raised
\* AttributeError and the handler returned a "fail" envelope
C2_Witness ==
    /\ last.op = "call"
    /\ last.target = "World.hello"
    /\ last.payload = <<>>
    /\ LastOutcome.kind = "raise"
    /\ LastOutcome.exc.cls = "AttributeError"
    /\ IsFailEnvelope(last.result.text)

\* C3, as claimed: for every bound name and every malformed payload (not
\* empty, not valid JSON) the handler returns a "fail" envelope; the decode
\* error is not thrown out of the handler.
C3_FailForMalformedPayload ==
    (/\ last.op = "call"
     /\ last.payload # <<>>
     /\ ~Loads(last.payload).ok)
    => /\ last.result.kind = "return"
       /\ IsFailEnvelope(last.result.text)

\* C4: when the bound callable returns a value that is not JSON-representable,
\* the handler returns a "fail" envelope: it neither raises nor returns "succ".
C4_FailForUnrepresentableResult ==
    (/\ last.op = "call"
     /\ DecodeArgs(last.payload).ok
     /\ StarArgs(DecodeArgs(last.payload).val).ok
     /\ LastOutcome.kind = "return"
     /\ ~Representable(LastOutcome.val))
    => /\ last.result.kind = "return"
       /\ IsFailEnvelope(last.result.text)

\* C4 witness: mkset returned the set {"x","y"} and the handler returned a
\* "fail" envelope
C4_Witness ==
    /\ last.op = "call"
    /\ last.target = "mkset"
    /\ last.payload = Encode(<<X, Y>>)
    /\ LastOutcome.kind = "return"
    /\ LastOutcome.val = VSet(<<X, Y>>)
    /\ IsFailEnvelope(last.result.text)

\* the callable most recently exposed under name
LatestBound(name) ==
    bindlog[Max({i \in 1..Len(bindlog) : bindlog[i].name = name})].fn

ExposedNames == {bindlog[i].name : i \in 1..Len(bindlog)}

C6_NonCallableRejected ==
    [][(/\ nbinds' = nbinds + 1
        /\ last'.op = "bind_func"
        /\ ~Callable(last'.target))
       => /\ last'.raised = "TypeError"
          /\ handlers' = handlers
          /\ webwin_js' = webwin_js]_vars

\* C6 witness: bind_func(42, 'f') ended with TypeError on an instance that
\* has handlers bound
C6_Witness ==
    /\ last.op = "bind_func"
    /\ ~Callable(last.target)
    /\ last.raised = "TypeError"
    /\ DOMAIN handlers # {}

\* texts[i], texts[i+1], ... occur in buf from offset from on, in this order
\* and without overlap
RECURSIVE InOrderFrom(_, _, _, _)
InOrderFrom(buf, texts, i, from) ==
    IF i > Len(texts) THEN TRUE
    ELSE LET hits == {p \in Occurrences(buf, texts[i]) : p >= from}
         IN  /\ hits # {}
             /\ InOrderFrom(buf, texts, i + 1, Min(hits) + Len(texts[i]))

\* C7, as claimed: the stub buffer is append-only and ordered by exposure:
\* every text the calls emitted is in the buffer, unchanged, in the order of
\* the calls, a re-exposed name having one stub for each exposure.
C7_StubsInExposureOrder == InOrderFrom(webwin_js, emitted, 1, 0)

\* C8, as claimed: the buffer holds the marker exactly once, and every
\* emitted text lies before it.
C8_MarkerOnceAfterStubs ==
    /\ Cardinality(Occurrences(webwin_js, WEBEIN_JS_EXPOSE_END)) = 1
    /\ InOrderFrom(Slice(webwin_js, 0, Find(webwin_js, WEBEIN_JS_EXPOSE_END)),
                   emitted, 1, 0)

\* the name under which the last bind_object call exposed its object
LastAlias == IF last.bindname = <<>> THEN Lower(ClassName(last.target)) ELSE last.bindname

\* the block 'alias: { ... },' of the last bind_object call: the stubs of the
\* methods it bound, each named m and forwarding to 'alias.m'
LastBlock ==
    LastAlias \o <<": {">> \o NL
    \o Concat([i \in 1..Len(last.binds) |->
                 LET m == SubSeq(last.binds[i].name, Len(LastAlias) + 2,
                                 Len(last.binds[i].name))
                 IN  StubText(FuncDoc(last.binds[i].fn), LastAlias \o <<".">> \o m, m) \o NL])
    \o <<"},">> \o NL

\* C9, as claimed: after bind_object(obj, alias) the buffer holds the block
\* 'alias: { ... },' of exactly the stubs of the methods that call exposed,
\* the handler key 'alias.m' of each is bound to that method of obj, and a
\* call of 'alias.m' invokes that method only.
C9_NamespaceBlock ==
    /\ last.op = "bind_object"
       => /\ Occurrences(webwin_js, LastBlock) # {}
          /\ \A i \in 1..Len(last.binds) :
               /\ StartsWith(last.binds[i].name, LastAlias \o <<".">>)
               /\ handlers[last.binds[i].name] = last.binds[i].fn
               /\ \E k \in 1..Len(Members(last.target)) :
                    /\ last.binds[i].name
                         = LastAlias \o <<".">> \o Members(last.target)[k].attr
                    /\ last.binds[i].fn = Members(last.target)[k].fn
    /\ last.op = "call"
       => \A i \in 1..Len(last.invoked) : last.invoked[i] = LatestBound(last.name)

\* no text with U+0130 has reached the buffer
NoDottedI == \A i \in 1..Len(webwin_js) : webwin_js[i] # "I_DOT"

\* C7 and C9 hold as long as no text with U+0130 has reached the buffer, and
\* then every emitted text lies before the last occurrence of the marker
C7_HoldsWithoutDottedI == NoDottedI => C7_StubsInExposureOrder
C9_HoldsWithoutDottedI == NoDottedI => C9_NamespaceBlock
C8_LastMarkerKeptWithoutDottedI ==
    NoDottedI
    => /\ Occurrences(webwin_js, WEBEIN_JS_EXPOSE_END) # {}
       /\ InOrderFrom(Slice(webwin_js, 0, RFind(webwin_js, WEBEIN_JS_EXPOSE_END)),
                      emitted, 1, 0)

\* C10, as claimed: bind_object exposes an attribute of the instance as
\* '<alias>.<attribute name>' if and only if the attribute is callable and its
\* name does not begin with an underscore.
C10_PublicCallablesExposed ==
    last.op = "bind_object"
    => \A k \in 1..Len(Members(last.target)) :
         (\E i \in 1..Len(last.binds) :
            last.binds[i].name = LastAlias \o <<".">> \o Members(last.target)[k].attr)
         <=> (/\ Members(last.target)[k].kind # "data"
              /\ ~StartsWith(Members(last.target)[k].attr, <<"_">>))

\* the offsets at which a text equal to where, case ignored, starts in html
CIOccurrences(html, where) ==
    {i \in 0..Len(html) :
       \E n \in 0..(Len(html) - i) : Lower(SubSeq(html, i + 1, i + n)) = Lower(where)}

\* the length of that text at offset i
CIMatchLen(html, where, i) ==
    CHOOSE n \in 0..(Len(html) - i) : Lower(SubSeq(html, i + 1, i + n)) = Lower(where)

\* the reference splice: insert put at the start or the end of the first or
\* the last occurrence of where in html, html itself when there is none
RefSplice(html, insert, where, forward, before) ==
    LET occ == CIOccurrences(html, where)
        i == IF forward THEN Min(occ) ELSE Max(occ)
        q == IF before THEN i ELSE i + CIMatchLen(html, where, i)
    IN  IF occ = {} THEN html
        ELSE SubSeq(html, 1, q) \o insert \o SubSeq(html, q + 1, Len(html))

\* C11, as claimed: insert_str(html, insert, where, forward, before) is the
\* reference splice: html when where does not occur in it, case ignored;
\* otherwise html with insert at the start (before) or the end (after) of the
\* first (forward) or last (backward) occurrence, all else unchanged.
C11_ReferenceSplice ==
    (inj.fn = "insert_str" /\ inj.done)
    => inj.out = RefSplice(inj.html, inj.insert, inj.where, inj.forward, inj.before)

\* insert_str is the reference splice when neither html nor where holds U+0130
C11_HoldsWithoutDottedI ==
    (/\ inj.fn = "insert_str"
     /\ inj.done
     /\ \A i \in 1..Len(inj.html) : inj.html[i] # "I_DOT"
     /\ \A i \in 1..Len(inj.where) : inj.where[i] # "I_DOT")
    => inj.out = RefSplice(inj.html, inj.insert, inj.where, inj.forward, inj.before)

\* str.endswith
EndsWith(s, suffix) ==
    Len(s) >= Len(suffix) /\ SubSeq(s, Len(s) - Len(suffix) + 1, Len(s)) = suffix

\* the piece is a script tag whose src ends with js_file
MatchingTag(kind, js_file) == SegSrc(kind) # <<>> /\ EndsWith(SegSrc(kind), js_file)

\* the tag of a piece, without the line end that follows it
TagText(kind) ==
    IF kind = "U" THEN SubSeq(SegText(kind), 1, Len(SegText(kind)) - 1) ELSE SegText(kind)

\* the document in which every matching tag, and nothing else, is wrapped
RefComment(segs, js_file) ==
    Concat([k \in 1..Len(segs) |->
              IF MatchingTag(segs[k], js_file)
              THEN COMMENT_OPEN \o TagText(segs[k]) \o COMMENT_CLOSE
                   \o SubSeq(SegText(segs[k]), Len(TagText(segs[k])) + 1,
                             Len(SegText(segs[k])))
              ELSE SegText(segs[k])])

\* C12, as claimed: comment_js_file returns the document in which each of the
\* k >= 0 matching script tags is wrapped as '<!-- ' + tag + ' -->' and every
\* character outside them, the other script tags included, is unchanged.
C12_EveryMatchWrapped ==
    (inj.fn = "comment_js_file" /\ inj.runs = 1)
    => inj.out = RefComment(inj.segs, inj.js_file)

\* the number of script tags among the pieces
NumTags(segs) == Cardinality({k \in 1..Len(segs) : SegSrc(segs[k]) # <<>>})

\* comment_js_file is as C12 says on a document with at most one script tag
C12_HoldsForOneTag ==
    (inj.fn = "comment_js_file" /\ inj.runs = 1 /\ NumTags(inj.segs) <= 1)
    => inj.out = RefComment(inj.segs, inj.js_file)

\* C13, as claimed: comment_js_file is idempotent: a second run on the result
\* of the first, with the same js_file, returns that result unchanged.
C13_Idempotent ==
    (inj.fn = "comment_js_file" /\ inj.runs = 2) => inj.out = inj.html

\* a second run wraps again the one tag the first run wrapped
C13_OneTagWrappedTwice ==
    (/\ inj.fn = "comment_js_file"
     /\ inj.runs = 2
     /\ inj.segs = <<"V">>
     /\ MatchingTag("V", inj.js_file))
    => inj.out = COMMENT_OPEN \o COMMENT_OPEN \o SegText("V")
                 \o COMMENT_CLOSE \o COMMENT_CLOSE

\* the document with the insertions of the stages in order, each the
\* reference splice at its anchor: the charset meta after the first '<head>',
\* the transport script and then the stub bundle before the last '</html>'
RefShow(js, html, meta, transport, stubs) ==
    LET h1 == IF meta THEN RefSplice(html, CHARSET_META, HEAD, TRUE, FALSE) ELSE html
        h2 == IF transport
              THEN RefSplice(h1, ScriptFile(WEBUI_JS), HTML_END, FALSE, TRUE)
              ELSE h1
    IN  IF stubs THEN RefSplice(h2, ScriptBlock(js), HTML_END, FALSE, TRUE) ELSE h2

\* C14, as claimed: the document handed to show holds the insertions of
\* exactly the enabled stages, applied in the order charset meta, transport
\* script, stub bundle, and none of the disabled ones.  The charset stage,
\* which show_html gives the caller no means to disable, counts as enabled.
C14_ExactlyTheEnabledStages ==
    (inj.fn = "show_html" /\ inj.done)
    => inj.shown = RefShow(webwin_js, inj.html, TRUE, inj.append_webui_js,
                           inj.append_webwin_js)

\* C14 holds of the documents without U+0130
C14_HoldsWithoutDottedI ==
    (/\ inj.fn = "show_html"
     /\ inj.done
     /\ \A i \in 1..Len(inj.html) : inj.html[i] # "I_DOT")
    => inj.shown = RefShow(webwin_js, inj.html, TRUE, inj.append_webui_js,
                           inj.append_webwin_js)

\* the charset meta is inserted also when the caller turns every stage off
C14_CharsetNeverDisabled ==
    (/\ inj.fn = "show_html"
     /\ inj.done
     /\ CIOccurrences(inj.html, HEAD) # {})
    => Occurrences(inj.shown, CHARSET_META) # {}

\* the entries of the table as the real parser receives them
Surviving(table) ==
    [i \in 1..Len(table) |-> [args |-> table[i].args, kwargs |-> table[i].kwargs]]

\* the table holds at most one entry per first argument name
UniqueNames(table) ==
    \A i, j \in 1..Len(table) : table[i].name = table[j].name => i = j

\* a step of add_argument that returned: the entry of its first name is the
\* new one, whole, and the entries of the other names are as before
AddReplaces ==
    (argp'.op.kind = "add" /\ argp'.raised = "")
    => /\ \E i \in 1..Len(argp'.table) :
            argp'.table[i] = Entry(argp'.op.name, argp'.op.args, argp'.op.kwargs)
       /\ {argp'.table[i] : i \in 1..Len(argp'.table)}
            \ {Entry(argp'.op.name, argp'.op.args, argp'.op.kwargs)}
          = {argp.table[i] : i \in 1..Len(argp.table)}
            \ ({argp.table[i] : i \in Slots(argp.table, argp'.op.name)}
               \cup {Entry(argp'.op.name, argp'.op.args, argp'.op.kwargs)})
       /\ argp'.registered = argp.registered

\* a step of mod_argument on a present name: its keyword settings are the
\* old ones overridden by the new, its names and the other entries are kept
ModUpdates ==
    (argp'.op.kind = "mod" /\ Slots(argp.table, argp'.op.name) # {})
    => /\ Len(argp'.table) = Len(argp.table)
       /\ \A i \in 1..Len(argp.table) :
            IF argp.table[i].name = argp'.op.name
            THEN /\ argp'.table[i].args = argp.table[i].args
                 /\ \A k \in DOMAIN argp'.op.kwargs :
                      argp'.table[i].kwargs[k] = argp'.op.kwargs[k]
                 /\ \A k \in DOMAIN argp.table[i].kwargs \ DOMAIN argp'.op.kwargs :
                      argp'.table[i].kwargs[k] = argp.table[i].kwargs[k]
                 /\ DOMAIN argp'.table[i].kwargs
                      = DOMAIN argp.table[i].kwargs \cup DOMAIN argp'.op.kwargs
            ELSE argp'.table[i] = argp.table[i]

\* a step of mod_argument or del_argument on an absent name changes nothing
AbsentNoOp ==
    (argp'.op.kind \in {"mod", "del"} /\ Slots(argp.table, argp'.op.name) = {})
    => /\ argp'.table = argp.table
       /\ argp'.registered = argp.registered
       /\ argp'.built = argp.built

\* a step of del_argument on a present name removes that entry alone
DelRemoves ==
    (argp'.op.kind = "del")
    => /\ {argp'.table[i] : i \in 1..Len(argp'.table)}
          = {argp.table[i] : i \in 1..Len(argp.table)}
            \ {argp.table[i] : i \in Slots(argp.table, argp'.op.name)}
       /\ argp'.registered = argp.registered

OptionStrings(entries) ==
    UNION {{entries[i].args[j] : j \in 1..Len(entries[i].args)} :
             i \in {k \in 1..Len(entries) : ~IsPositional(entries[k].args)}}

\* the real parser rejects entry i of the table: one of its option strings
\* is registered, or is an option string of an entry before it
Rejected(registered, table, i) ==
    /\ ~IsPositional(table[i].args)
    /\ \E j \in 1..Len(table[i].args) :
         table[i].args[j] \in OptionStrings(registered)
                              \cup OptionStrings(SubSeq(table, 1, i - 1))

\* the number of entries in front of the first one rejected
Accepted(registered, table) ==
    Cardinality({i \in 1..Len(table) :
                   \A k \in 1..i : ~Rejected(registered, table, k)})

StubKeysOf(buf) ==
    {SubSeq(buf, i + 1,
            Min({j \in (i + 1)..Len(buf) : buf[j] = "\", ...args);\n},"}) - 1) :
       i \in {i \in 1..Len(buf) :
                /\ buf[i] = "(...args) {\n    return await webwin._call_(\""
                /\ \E j \in (i + 1)..Len(buf) : buf[j] = "\", ...args);\n},"}}

\* C16, as claimed: after any sequence of bind_func and bind_object calls,
\* those that raised part-way included, the names with a bound handler are
\* the handler keys the stubs of the buffer forward to: no stub without a
\* handler, no handler without a stub.
C16_HandlersMatchStubs == DOMAIN handlers = StubKeysOf(webwin_js)

\* no stub is without a handler, whatever the calls
C16_NoStubWithoutHandler == StubKeysOf(webwin_js) \subseteq DOMAIN handlers

\* C16 holds as long as no call raised after binding and no text with U+0130
\* has reached the buffer
C16_HoldsWithoutRaiseAndDottedI ==
    (/\ NoDottedI
     /\ \A i \in 1..Len(bindlog) : DocIsStr(bindlog[i].fn))
    => C16_HandlersMatchStubs

\* C17, as claimed: a call of 'fs.removefile' with a path that is a file
\* removes the file and returns the "succ" envelope; with a path that is not
\* a file it removes nothing and returns a "fail" envelope of
\* FileNotFoundError.
C17_RemovefileRaisesIffAbsent ==
    (/\ last.op = "call"
     /\ last.target = "FileSystem.removefile"
     /\ CalledWith(LastArgs)
     /\ Len(LastArgs) = 1
     /\ LastArgs[1].t = "str")
    => IF LastArgs[1].s \in DOMAIN last.pre.files
       THEN /\ files = [q \in DOMAIN last.pre.files \ {LastArgs[1].s} |-> last.pre.files[q]]
            /\ last.result.kind = "return"
            /\ last.result.text = SuccEnvelope(VNone)
       ELSE /\ files = last.pre.files
            /\ last.result.kind = "return"
            /\ IsFailEnvelope(last.result.text)
            /\ last.result.text[8].v = Repr(FileNotFound(LastArgs[1].s))

\* every call of 'fs.removefile' with one path, of a file or not, returns
\* the "fail" envelope of FileNotFoundError, and the file, if any, is removed
C17_RemovefileAlwaysFails ==
    (/\ last.op = "call"
     /\ last.target = "FileSystem.removefile"
     /\ CalledWith(LastArgs)
     /\ Len(LastArgs) = 1
     /\ LastArgs[1].t = "str")
    => /\ LastArgs[1].s \notin DOMAIN files
       /\ last.result.kind = "return"
       /\ last.result.text = DumpsFail(Repr(FileNotFound(LastArgs[1].s)))

====
